---- MODULE Spec2Model ----
(***************************************************************************)
(* Model coordination layer of paTHFinder: ModelCoordinator               *)
(* (app/ml/model_coordinator.py), the ensemble wrapper PathfinderAI        *)
(* (app/ml/ai_model.py) and the neural wrapper PathfinderANN               *)
(* (app/ml/ann_model.py), with the artifact files they read and write.     *)
(*                                                                         *)
(* Scores are fixed-point tenths: 5 stands for 0.5, 10 for 1.0.           *)
(* A version string "a.b.n" is the pair <<"a.b", n>>.                      *)
(***************************************************************************)
EXTENDS Integers, Sequences, FiniteSets, TLC

\* ------------------------------------------------------------------ bounds
MaxClock == 2
MaxUpdates == 1

\* ------------------------------------------------------------------ values
NoneVal == [is_none |-> TRUE]

NoneEst == [st |-> "none", gen |-> 0]
FreshEst == [st |-> "fresh", gen |-> 0]
Fitted(g) == [st |-> "fitted", gen |-> g]

IsFitted(e) == e.st = "fitted"

UnknownVersion == <<"unknown", 0>>
DefaultVersion == <<"1.0", 0>>
TrainedVersion(t) == <<"1.1", t>>
CoordinatorVersion(t) == <<"1.0", t>>

\* last_training_date = None
NoDate == -1

Absent == [kind |-> "absent"]
Corrupt == [kind |-> "corrupt"]

Exists(f) == f.kind # "absent"

\* the dict PathfinderAI.save_models dumps
RFArtifact(self) ==
    [kind |-> "artifact",
     classifier |-> self.route_classifier,
     regressor |-> self.difficulty_predictor,
     scaler |-> self.scaler,
     version |-> self.model_version,
     training_date |-> self.last_training_date]

\* the dict PathfinderANN.save_model pickles
ANNBlob(self) ==
    [kind |-> "artifact", model |-> self.model, scaler |-> self.scaler]

\* the JSON sidecar PathfinderANN.save_model writes
ANNMetadata(self) ==
    [kind |-> "artifact",
     version |-> self.model_version,
     training_date |-> self.last_training_date,
     date_parses |-> TRUE,        \* isoformat() text, which fromisoformat reads
     feature_names |-> self.feature_names]

\* ------------------------------------------------------------------- state
VARIABLES
    rf_model,           \* ModelCoordinator.rf_model
    ann_model,          \* ModelCoordinator.ann_model
    model_version,      \* ModelCoordinator.model_version
    predictions_cache,  \* ModelCoordinator.predictions_cache: the entries [key, value]
    disk,               \* the artifact files under MODEL_DIR
    now,                \* int(datetime.utcnow().timestamp())
    updates,            \* number of training calls made so far
    version_artifacts,  \* artifacts in memory when model_version was assigned
    last,               \* the last call: operation, arguments, outcome
    threads             \* the calls in progress: where each one stands

vars == <<rf_model, ann_model, model_version, predictions_cache, disk, now,
          updates, version_artifacts, last, threads>>

\* ---------------------------------------------------------- PathfinderAI
PathfinderAI_init ==
    [is_none |-> FALSE,
     route_classifier |-> NoneEst,
     difficulty_predictor |-> NoneEst,
     scaler |-> FreshEst,
     model_version |-> DefaultVersion,
     last_training_date |-> NoDate]

REQUIRED_FEATURES ==
    {"distance", "elevation_gain", "has_sidewalks", "is_lit", "surface_type"}

\* the canned row of validate_models has every required feature
ValidationRow == [attrs |-> REQUIRED_FEATURES]

\* PathfinderAI.prepare_route_features: TRUE when a non-empty frame comes
\* back.  A missing attribute raises inside the try and yields the empty
\* frame; so does the truth test of an unfitted classifier (line 111), whose
\* __len__ reads estimators_.
prepare_route_features_nonempty(self, route) ==
    /\ REQUIRED_FEATURES \subseteq route.attrs
    /\ self.route_classifier.st # "fresh"

validate_models_skipped(self) == TRUE

\* PathfinderAI.validate_models
validate_models(self) ==
    /\ prepare_route_features_nonempty(self, ValidationRow)
    /\ IsFitted(self.route_classifier)
    /\ IsFitted(self.difficulty_predictor)

\* PathfinderAI.init_models: the object after the call and the value returned
init_models(self, d) ==
    IF Exists(d.rf_path)
    THEN IF d.rf_path.kind = "corrupt"
         THEN [self |-> self, ok |-> FALSE]
         ELSE LET loaded == [self EXCEPT
                                !.route_classifier = d.rf_path.classifier,
                                !.difficulty_predictor = d.rf_path.regressor,
                                !.scaler = d.rf_path.scaler,
                                !.model_version = d.rf_path.version,
                                !.last_training_date = d.rf_path.training_date]
              IN [self |-> loaded, ok |-> validate_models(loaded)]
    ELSE [self |-> [self EXCEPT !.route_classifier = FreshEst,
                                !.difficulty_predictor = FreshEst],
          ok |-> TRUE]

\* ---------------------------------------------------------- PathfinderANN
DefaultFeatureNames == "default"

PathfinderANN_init ==
    [is_none |-> FALSE,
     model |-> NoneEst,
     scaler |-> NoneEst,
     model_version |-> DefaultVersion,
     last_training_date |-> NoDate,
     feature_names |-> DefaultFeatureNames]

\* PathfinderANN.build_model
build_model(self) == [self EXCEPT !.scaler = FreshEst, !.model = FreshEst]

load_model_without_build(self, d) ==
    IF ~Exists(d.ann_blob) THEN build_model(self)
    ELSE IF d.ann_blob.kind = "corrupt" THEN self
    ELSE LET loaded == [self EXCEPT !.model = d.ann_blob.model,
                                    !.scaler = d.ann_blob.scaler]
         IN IF ~Exists(d.ann_meta) THEN loaded
            ELSE IF d.ann_meta.kind = "corrupt" THEN loaded
            ELSE IF ~d.ann_meta.date_parses
            THEN [loaded EXCEPT !.model_version = d.ann_meta.version]
            ELSE [loaded EXCEPT
                     !.model_version = d.ann_meta.version,
                     !.last_training_date = d.ann_meta.training_date,
                     !.feature_names = d.ann_meta.feature_names]

\* PathfinderANN.load_model: the object after the call (it always returns True)
load_model(self, d) ==
    IF ~Exists(d.ann_blob) THEN build_model(self)
    ELSE IF d.ann_blob.kind = "corrupt" THEN build_model(self)
    ELSE LET loaded == [self EXCEPT !.model = d.ann_blob.model,
                                    !.scaler = d.ann_blob.scaler]
         IN IF ~Exists(d.ann_meta) THEN loaded
            ELSE IF d.ann_meta.kind = "corrupt" THEN build_model(loaded)
            ELSE IF ~d.ann_meta.date_parses
            THEN build_model([loaded EXCEPT !.model_version = d.ann_meta.version])
            ELSE [loaded EXCEPT
                     !.model_version = d.ann_meta.version,
                     !.last_training_date = d.ann_meta.training_date,
                     !.feature_names = d.ann_meta.feature_names]

\* PathfinderANN.load_model: the value returned, path by path
load_model_returns(self, d) ==
    IF ~Exists(d.ann_blob) THEN TRUE          \* line 78
    ELSE IF d.ann_blob.kind = "corrupt" THEN TRUE   \* line 101
    ELSE IF Exists(d.ann_meta) /\ d.ann_meta.kind = "corrupt" THEN TRUE
    ELSE TRUE                                 \* line 96

\* ------------------------------------------------- PathfinderAI: training
\* where one call of PathfinderAI.train can raise
RFTrainFailures ==
    {"none", "input", "scaler", "clf_fit", "clf_score", "reg_fit", "reg_score"}

\* where one call of PathfinderAI.save_models can raise
RFSaveFailures ==
    {"none", "makedirs", "rename", "dump_open", "dump_write", "remove"}

\* the except branch of save_models: a backup, if there is one, is renamed
\* over the canonical path
restore_backup(d) ==
    IF Exists(d.rf_backup)
    THEN [d EXCEPT !.rf_path = d.rf_backup, !.rf_backup = Absent]
    ELSE d

\* PathfinderAI.save_models: the disk after the call and the value returned
save_models(self, d, fail) ==
    LET moved == IF Exists(d.rf_path)
                 THEN [d EXCEPT !.rf_backup = d.rf_path, !.rf_path = Absent]
                 ELSE d
        written == [moved EXCEPT !.rf_path = RFArtifact(self)]
    IN  IF self.route_classifier.st # "fitted" \/ self.difficulty_predictor.st # "fitted"
           THEN [disk |-> restore_backup(d), ok |-> FALSE]
        ELSE IF fail = "makedirs"
           THEN [disk |-> restore_backup(d), ok |-> FALSE]
        ELSE IF fail = "rename" /\ Exists(d.rf_path)
           THEN [disk |-> restore_backup(d), ok |-> FALSE]
        ELSE IF fail = "dump_open"
           THEN [disk |-> restore_backup(moved), ok |-> FALSE]
        ELSE IF fail = "dump_write"
           THEN [disk |-> restore_backup([moved EXCEPT !.rf_path = Corrupt]),
                 ok |-> FALSE]
        ELSE IF fail = "remove" /\ Exists(written.rf_backup)
           THEN [disk |-> restore_backup(written), ok |-> FALSE]
        ELSE [disk |-> [written EXCEPT !.rf_backup = Absent], ok |-> TRUE]

\* PathfinderAI.train: the object and the disk after the call and the value
\* returned.  g names the estimators this call fits, t is the clock.
rf_train(self, d, g, t, fail, save_fail) ==
    LET s1 == [self EXCEPT !.scaler = Fitted(g)]
        s2 == [s1 EXCEPT
                 !.route_classifier =
                     IF @.st = "none" THEN FreshEst ELSE @,
                 !.difficulty_predictor =
                     IF @.st = "none" THEN FreshEst ELSE @]
        s3 == [s2 EXCEPT !.route_classifier = Fitted(g)]
        s4 == [s3 EXCEPT !.difficulty_predictor = Fitted(g)]
        s5 == [s4 EXCEPT !.last_training_date = t,
                         !.model_version = TrainedVersion(t)]
        saved == save_models(s5, d, save_fail)
    IN  CASE fail = "input"     -> [self |-> self, disk |-> d, ok |-> FALSE]
          [] fail = "scaler"    -> [self |-> self, disk |-> d, ok |-> FALSE]
          [] fail = "clf_fit"   -> [self |-> s2, disk |-> d, ok |-> FALSE]
          [] fail = "clf_score" -> [self |-> s3, disk |-> d, ok |-> FALSE]
          [] fail = "reg_fit"   -> [self |-> s3, disk |-> d, ok |-> FALSE]
          [] fail = "reg_score" -> [self |-> s4, disk |-> d, ok |-> FALSE]
          [] OTHER              -> [self |-> s5, disk |-> saved.disk,
                                    ok |-> saved.ok]

\* ------------------------------------------------ PathfinderANN: training
ANNTrainFailures == {"none", "scaler", "fit", "score"}

ANNSaveFailures == {"none", "blob_open", "blob_write", "meta_open", "meta_write"}

\* PathfinderANN.save_model: the disk after the call and the value returned
save_model(self, d, fail) ==
    LET blob_done == [d EXCEPT !.ann_blob = ANNBlob(self)]
    IN  IF self.model.st = "none"
           THEN [disk |-> d, ok |-> FALSE]
        ELSE IF fail = "blob_open"
           THEN [disk |-> d, ok |-> FALSE]
        ELSE IF fail = "blob_write"
           THEN [disk |-> [d EXCEPT !.ann_blob = Corrupt], ok |-> FALSE]
        ELSE IF fail = "meta_open"
           THEN [disk |-> blob_done, ok |-> FALSE]
        ELSE IF fail = "meta_write"
           THEN [disk |-> [blob_done EXCEPT !.ann_meta = Corrupt], ok |-> FALSE]
        ELSE [disk |-> [blob_done EXCEPT !.ann_meta = ANNMetadata(self)],
              ok |-> TRUE]

\* PathfinderANN.train: the object and the disk after the call and the first
\* component of the pair returned
ann_train(self, d, g, t, fail, save_fail) ==
    LET s0 == IF self.model.st = "none" THEN build_model(self) ELSE self
        s1 == [s0 EXCEPT !.scaler = Fitted(g)]
        s2 == [s1 EXCEPT !.model = Fitted(g)]
        s3 == [s2 EXCEPT !.last_training_date = t,
                         !.model_version = TrainedVersion(t)]
        saved == save_model(s3, d, save_fail)
    IN  CASE fail = "scaler" -> [self |-> s0, disk |-> d, ok |-> FALSE]
          [] fail = "fit"    -> [self |-> s1, disk |-> d, ok |-> FALSE]
          [] fail = "score"  -> [self |-> s2, disk |-> d, ok |-> FALSE]
          [] OTHER           -> [self |-> s3, disk |-> saved.disk, ok |-> TRUE]

\* ------------------------------------------------------------------ inputs
\* a route object: the attributes it has, and those the feature builders read
Route(attrs, distance, elevation_gain) ==
    [is_none |-> FALSE, attrs |-> attrs,
     distance |-> distance, elevation_gain |-> elevation_gain]

FullRoute == Route(REQUIRED_FEATURES, 50, 1000)
NoSidewalksRoute == Route(REQUIRED_FEATURES \ {"has_sidewalks"}, 50, 1000)
NoDistanceRoute == Route(REQUIRED_FEATURES \ {"distance"}, 0, 1000)

Routes == {FullRoute, NoSidewalksRoute, NoDistanceRoute}

\* Route.query.get: the rows of the route store, None for any other id
RouteIds == {1, 2}
RouteQueryGet(route_id) ==
    IF route_id = 1 THEN FullRoute ELSE NoneVal

\* a preference dict, as the sequence of its items in insertion order
PrefAvoidLit == << <<"traffic_preference", "avoid">>, <<"require_lighting", "True">> >>
PrefLitAvoid == << <<"require_lighting", "True">>, <<"traffic_preference", "avoid">> >>
PrefGrass == << <<"surface_preference", "grass">>, <<"require_lighting", "True">>,
                <<"require_sidewalks", "True">> >>
PrefEmpty == << >>

Preferences == {PrefAvoidLit, PrefLitAvoid, PrefGrass, PrefEmpty}

\* the preference dicts the request handlers pass
RequestPreferences == {PrefAvoidLit, PrefLitAvoid}

\* the preference dicts _generate_predictions is called with
PipelinePreferences == {PrefGrass, PrefEmpty}

\* one key of a preference dict, left out when the caller did not set it
OptionalItem(key, v) == IF v = "absent" THEN << >> ELSE << <<key, v>> >>

\* the preference dicts the feature builder is given: every key set to a
\* value of its table, to another value, or absent
AnnPreferences ==
    {OptionalItem("traffic_preference", t) \o OptionalItem("surface_preference", s)
       \o OptionalItem("require_lighting", l) \o OptionalItem("require_sidewalks", w) :
        t \in {"absent", "avoid", "neutral", "prefer"},
        s \in {"absent", "asphalt", "dirt", "grass", "gravel"},
        l \in {"absent", "True", "False"},
        w \in {"absent", "True"}}

\* dict equality does not look at insertion order
DictItems(prefs) == {prefs[i] : i \in 1..Len(prefs)}
DictEq(p, q) == DictItems(p) = DictItems(q)

\* dict.get(key, default)
DictGet(prefs, key, default) ==
    IF \E i \in 1..Len(prefs) : prefs[i][1] = key
    THEN LET i == CHOOSE j \in 1..Len(prefs) : prefs[j][1] = key IN prefs[i][2]
    ELSE default

Truthy(v) == v = "True"

\* what the fitted estimators answer for one row: they are opaque here
EstimatorOutput(label, difficulty, confidence, quality) ==
    [label |-> label, difficulty |-> difficulty,
     confidence |-> confidence, quality |-> quality]

EstimatorOutputs ==
    {EstimatorOutput("easy", 5, 10, 6),
     EstimatorOutput("challenging", 12, 4, 14),
     EstimatorOutput("easy", -1, 4, -3)}

\* ------------------------------------------------------ feature builders
\* ModelCoordinator.get_traffic_score
get_traffic_score(prefs) ==
    LET v == DictGet(prefs, "traffic_preference", "neutral")
    IN  CASE v = "avoid" -> 0 [] v = "neutral" -> 5 [] OTHER -> 5

\* ModelCoordinator.get_surface_score
get_surface_score(prefs) ==
    LET v == DictGet(prefs, "surface_preference", "asphalt")
    IN  CASE v = "asphalt" -> 10 [] v = "dirt" -> 7 [] v = "grass" -> 4
          [] OTHER -> 7

Min(a, b) == IF a < b THEN a ELSE b

\* ModelCoordinator.get_safety_score
get_safety_score(prefs) ==
    LET base == 8
        lit == IF Truthy(DictGet(prefs, "require_lighting", "None"))
               THEN base + 1 ELSE base
        walk == IF Truthy(DictGet(prefs, "require_sidewalks", "None"))
                THEN lit + 1 ELSE lit
    IN  Min(walk, 10)

\* ModelCoordinator.prepare_ann_features raises when route.distance or
\* route.elevation_gain cannot be read
prepare_ann_features_raises(route) ==
    ~({"distance", "elevation_gain"} \subseteq route.attrs)

\* ModelCoordinator.prepare_ann_features with ann_model.prepare_route_features
prepare_ann_features(route, prefs) ==
    <<route.distance, route.elevation_gain, get_traffic_score(prefs),
      get_surface_score(prefs), get_safety_score(prefs)>>

\* a route row with the columns PathfinderAI reads
FeatureRoute(attrs, surface_type, has_sidewalks, is_lit) ==
    [is_none |-> FALSE, attrs |-> attrs, distance |-> 50,
     elevation_gain |-> 1000, surface_type |-> surface_type,
     has_sidewalks |-> has_sidewalks, is_lit |-> is_lit]

FeatureRoutes ==
    {FeatureRoute(a, s, w, l) :
        a \in {REQUIRED_FEATURES, REQUIRED_FEATURES \ {"is_lit"}},
        s \in {"asphalt", "dirt", "gravel"}, w \in {0, 1}, l \in {0, 1}}

\* the column pd.get_dummies(prefix='surface') makes for one surface type
SurfaceColumn(surface_type) ==
    CASE surface_type = "asphalt" -> "surface_asphalt"
      [] surface_type = "dirt" -> "surface_dirt"
      [] surface_type = "grass" -> "surface_grass"
      [] OTHER -> "surface_gravel"

\* lines 99-109 of prepare_route_features: the one-row frame before it is
\* reindexed, as the sequence of its <<column, value>> cells
RouteRow(route) ==
    << <<"distance", route.distance>>,
       <<"elevation_gain", route.elevation_gain>>,
       <<"has_sidewalks", route.has_sidewalks>>,
       <<"is_lit", route.is_lit>>,
       <<SurfaceColumn(route.surface_type), 1>> >>

\* the cell of a column in a row, 0 where the row has no such column
\* (lines 114-116)
CellOrZero(row, col) ==
    IF \E j \in 1..Len(row) : row[j][1] = col
    THEN LET j == CHOOSE k \in 1..Len(row) : row[k][1] = col
         IN  <<col, row[j][2]>>
    ELSE <<col, 0>>

reindex_keeps_row_order(row, expected_columns) ==
    LET kept == SelectSeq(row, LAMBDA c :
                    \E i \in 1..Len(expected_columns) : expected_columns[i] = c[1])
        added == SelectSeq(expected_columns, LAMBDA col :
                    ~\E j \in 1..Len(row) : row[j][1] = col)
    IN  kept \o [i \in 1..Len(added) |-> <<added[i], 0>>]

\* lines 112-117: features[expected_columns] after the missing columns were
\* added with value 0
reindex(row, expected_columns) ==
    [i \in 1..Len(expected_columns) |-> CellOrZero(row, expected_columns[i])]

\* PathfinderAI.prepare_route_features: the row returned, << >> for the
\* empty frame of the except branch
prepare_route_features(self, route, feature_names_in) ==
    IF ~(REQUIRED_FEATURES \subseteq route.attrs) THEN << >>
    ELSE IF self.route_classifier.st = "fresh" THEN << >>
    ELSE IF self.route_classifier.st = "none" THEN RouteRow(route)
    ELSE reindex(RouteRow(route), feature_names_in)

\* the column lists a trained classifier can have recorded
TrainedColumns ==
    {<<"distance", "elevation_gain", "has_sidewalks", "is_lit",
       "surface_asphalt", "surface_dirt", "surface_grass">>,
     <<"surface_grass", "surface_asphalt", "distance", "elevation_gain",
       "has_sidewalks", "is_lit">>,
     <<"distance", "elevation_gain", "has_sidewalks", "is_lit",
       "surface_asphalt">>,
     <<"is_lit", "has_sidewalks", "surface_dirt", "elevation_gain", "distance">>,
     <<"distance", "elevation_gain", "surface_dirt", "surface_gravel">>}

\* ------------------------------------------------------------- prediction
\* PathfinderAI.predict_route_properties; error marks its except branch
predict_route_properties(self, nonempty, outs) ==
    IF /\ nonempty
       /\ IsFitted(self.route_classifier)
       /\ IsFitted(self.difficulty_predictor)
       /\ IsFitted(self.scaler)
    THEN [route_type |-> outs.label,
          difficulty_score |-> outs.difficulty,
          confidence_score |-> outs.confidence,
          error |-> FALSE]
    ELSE [route_type |-> "unknown", difficulty_score |-> 5,
          confidence_score |-> 0, error |-> TRUE]

\* np.clip(predictions, 0, 1)
Clip(x) == IF x < 0 THEN 0 ELSE IF x > 10 THEN 10 ELSE x

\* PathfinderANN.predict_route_quality: the object after the call, the value
\* of [0][0], and whether the except branch produced it
predict_route_quality(self, d, outs) ==
    LET s == IF self.model.st = "none" THEN load_model(self, d) ELSE self
    IN  IF IsFitted(s.scaler) /\ IsFitted(s.model)
        THEN [self |-> s, value |-> Clip(outs.quality), error |-> FALSE]
        ELSE [self |-> s, value |-> 5, error |-> TRUE]

\* PathfinderANN.predict_route_quality on a batch: the object after the call
\* and the values of the array returned, one per row of predictions.reshape(-1, 1)
\* or the single 0.5 of the except branch
predict_route_quality_rows(self, d, rows) ==
    LET s == IF self.model.st = "none" THEN load_model(self, d) ELSE self
    IN  IF IsFitted(s.scaler) /\ IsFitted(s.model)
        THEN [self |-> s,
              values |-> [i \in 1..Len(rows) |-> Clip(rows[i].quality)],
              error |-> FALSE]
        ELSE [self |-> s, values |-> <<5>>, error |-> TRUE]

\* the batches predict_route_quality is given: one row or two
FeatureBatches ==
    {<<o>> : o \in EstimatorOutputs}
        \cup {<<o, p>> : o \in EstimatorOutputs, p \in EstimatorOutputs}

NoPrediction == [is_none |-> TRUE]

\* ModelCoordinator.get_fallback_predictions
get_fallback_predictions(version, t) ==
    [is_none |-> FALSE,
     route_type |-> "mixed",
     difficulty_score |-> 5,
     quality_score |-> 5,
     confidence_score |-> 0,
     prediction_timestamp |-> t,
     model_version |-> version,
     is_fallback |-> TRUE]

\* the estimators a prediction read
ArtifactsOf(rf, ann) ==
    [classifier |-> IF rf.is_none THEN NoneEst ELSE rf.route_classifier,
     regressor |-> IF rf.is_none THEN NoneEst ELSE rf.difficulty_predictor,
     rf_scaler |-> IF rf.is_none THEN NoneEst ELSE rf.scaler,
     ann_model |-> IF ann.is_none THEN NoneEst ELSE ann.model,
     ann_scaler |-> IF ann.is_none THEN NoneEst ELSE ann.scaler]

\* ModelCoordinator._generate_predictions: the result, the neural object
\* after the call, and whether each model produced its own prediction
generate_predictions(rf, ann, version, d, t, route, prefs, outs) ==
    IF rf.is_none \/ route.is_none \/ prepare_ann_features_raises(route) \/ ann.is_none
    THEN [result |-> get_fallback_predictions(version, t), ann |-> ann,
          rf_produced |-> FALSE, ann_produced |-> FALSE]
    ELSE LET rf_predictions ==
                 predict_route_properties(
                     rf, prepare_route_features_nonempty(rf, route), outs)
             quality == predict_route_quality(ann, d, outs)
         IN  [result |->
                 [is_none |-> FALSE,
                  route_type |-> rf_predictions.route_type,
                  difficulty_score |-> rf_predictions.difficulty_score,
                  quality_score |-> quality.value,
                  confidence_score |-> rf_predictions.confidence_score,
                  prediction_timestamp |-> t,
                  model_version |-> version,
                  is_fallback |-> FALSE],
              ann |-> quality.self,
              rf_produced |-> ~rf_predictions.error,
              ann_produced |-> ~quality.error]

\* ------------------------------------------------------- the cache decorator
\* what line 45 hands to cachetools.cached as its cache: a lambda
DecoratorCache == [type |-> "function"]

\* obj[k] is defined for mappings only
Subscriptable(obj) == obj.type \in {"TTLCache", "dict"}

\* hash(obj): a dict has none
Hashable(type) == type # "dict"

\* cachetools.keys.hashkey(self, route_id, user_preferences); equal dicts
\* make equal keys
hashkey(route_id, prefs) == <<route_id, DictItems(prefs)>>

cached_raises_never(cache, arg_type) == FALSE

\* the wrapper of cachetools.cached evaluates cache[k] before it calls the
\* function: TypeError unless the cache is a mapping and k can be hashed
cached_raises(cache, arg_type) == ~Subscriptable(cache) \/ ~Hashable(arg_type)

\* ------------------------------------------------------------ the last call
NoRequest == [is_none |-> TRUE]

\* a call made through get_route_predictions; updated tells that
\* update_models returned True after it
Request(route_id, prefs, outcome, result, updated) ==
    [is_none |-> FALSE, route_id |-> route_id, prefs |-> prefs,
     outcome |-> outcome, result |-> result, updated |-> updated]

LastCall(op) ==
    [op |-> op,
     outcome |-> "returned",      \* "returned" or "raised"
     ret |-> FALSE,               \* the boolean returned, where there is one
     result |-> NoPrediction,     \* the prediction returned, where there is one
     route_id |-> 0,
     prefs |-> << >>,
     cache_hit |-> FALSE,
     prev |-> NoRequest,          \* the get_route_predictions call just before
     rf_produced |-> FALSE,
     ann_produced |-> FALSE,
     used |-> ArtifactsOf(NoneVal, NoneVal),
     rf_called |-> FALSE,         \* update_models reached rf_model.train
     ann_called |-> FALSE,        \* update_models reached ann_model.train
     rf_success |-> FALSE,
     ann_success |-> FALSE,
     initialized |-> FALSE,       \* update_models ran initialize_models
     cache_clears |-> 0,
     pre_version |-> UnknownVersion,
     pre_cache |-> {},
     init_version |-> UnknownVersion,   \* model_version after the call's initialize_models
     post_version |-> UnknownVersion,
     post_cache |-> {},
     payload |-> NoneVal,         \* the training payload of update_models
     fail |-> "none",             \* where a train call made directly raised
     save_fail |-> "none",        \* where a save call made directly raised
     pre_disk |-> NoneVal,        \* the files before a call made directly
     pre_rf |-> NoneVal,          \* rf_model before a call made directly
     pre_ann |-> NoneVal,         \* ann_model before a call made directly
     route |-> NoneVal,           \* the route a feature builder was given
     feature_names_in |-> << >>,  \* route_classifier.feature_names_in_ at the call
     rows |-> << >>,              \* the input rows of predict_route_quality
     row |-> << >>]               \* the row or the values a call returned

\* ------------------------------------------------------- calls in progress
\* update_models is not running
IdleUpdate ==
    [pc |-> "idle",               \* the statement the call executes next
     g |-> 0,                     \* names the estimators the call fits
     rf_fail |-> "none",          \* where rf_model.train will raise
     ann_fail |-> "none",         \* where ann_model.train will raise
     rf_success |-> FALSE,
     ann_success |-> FALSE,
     before |-> ArtifactsOf(NoneVal, NoneVal),  \* the estimators when training began
     had_artifact |-> FALSE,      \* model_path held an artifact when training began
     pre_version |-> UnknownVersion]

\* get_route_predictions is not running
IdleRequest ==
    [pc |-> "idle", key |-> <<0, {}>>, value |-> NoPrediction,
     computed_after |-> 0]        \* updates completed when value was computed

IdleThreads ==
    [upd |-> IdleUpdate,
     req |-> IdleRequest,
     completed |-> 0,             \* update_models calls that returned True
     overlapped |-> FALSE]        \* a request was made while the update ran

\* ------------------------------------------------------------ initial state
PriorRF ==
    [kind |-> "artifact", classifier |-> Fitted(0), regressor |-> Fitted(0),
     scaler |-> Fitted(0), version |-> TrainedVersion(0), training_date |-> 0]

PriorANNBlob == [kind |-> "artifact", model |-> Fitted(0), scaler |-> Fitted(0)]

PriorANNMetadata ==
    [kind |-> "artifact", version |-> TrainedVersion(0), training_date |-> 0,
     date_parses |-> TRUE, feature_names |-> DefaultFeatureNames]

\* a sidecar that is sound JSON with a training_date fromisoformat rejects
BadDateANNMetadata == [PriorANNMetadata EXCEPT !.date_parses = FALSE]

\* MODEL_DIR before the first run, and as a run that trained both models
\* leaves it
FreshDisk ==
    [rf_path |-> Absent, rf_backup |-> Absent,
     ann_blob |-> Absent, ann_meta |-> Absent]

TrainedDisk ==
    [rf_path |-> PriorRF, rf_backup |-> Absent,
     ann_blob |-> PriorANNBlob, ann_meta |-> PriorANNMetadata]

InitialDisks == {FreshDisk, TrainedDisk}

\* an artifact written by an earlier run than the one that wrote PriorRF
StaleRF ==
    [kind |-> "artifact", classifier |-> Fitted(-1), regressor |-> Fitted(-1),
     scaler |-> Fitted(-1), version |-> DefaultVersion, training_date |-> 0]

\* an artifact that loads but holds estimators that were never fitted
UnfittedRF ==
    [kind |-> "artifact", classifier |-> FreshEst, regressor |-> FreshEst,
     scaler |-> FreshEst, version |-> DefaultVersion, training_date |-> NoDate]

\* MODEL_DIR as earlier runs, interrupted saves and damaged files leave it:
\* the ensemble's file and its .backup sibling vary beside a sound neural
\* artifact, and the neural files vary beside a sound ensemble artifact
ArtifactDisks ==
    {[TrainedDisk EXCEPT !.rf_path = p, !.rf_backup = b] :
        p \in {Absent, Corrupt, PriorRF, UnfittedRF}, b \in {Absent, StaleRF}}
    \cup
    {[TrainedDisk EXCEPT !.ann_blob = a[1], !.ann_meta = a[2]] :
        a \in {<<Absent, Absent>>, <<Corrupt, Absent>>,
                <<Corrupt, PriorANNMetadata>>, <<PriorANNBlob, Absent>>,
                <<PriorANNBlob, Corrupt>>,
                <<PriorANNBlob, BadDateANNMetadata>>}}
    \cup {FreshDisk}

\* ModelCoordinator.__init__ over any of those directories
InitArtifacts ==
    /\ threads = IdleThreads
    /\ rf_model = NoneVal
    /\ ann_model = NoneVal
    /\ model_version = UnknownVersion
    /\ predictions_cache = {}
    /\ disk \in ArtifactDisks
    /\ now = 1
    /\ updates = 0
    /\ version_artifacts = ArtifactsOf(NoneVal, NoneVal)
    /\ last = LastCall("__init__")

\* ModelCoordinator.__init__
Init ==
    /\ threads = IdleThreads
    /\ rf_model = NoneVal
    /\ ann_model = NoneVal
    /\ model_version = UnknownVersion
    /\ predictions_cache = {}
    /\ disk \in InitialDisks
    /\ now = 1
    /\ updates = 0
    /\ version_artifacts = ArtifactsOf(NoneVal, NoneVal)
    /\ last = LastCall("__init__")

\* a coordinator whose update_models has just returned True, within second
\* 1, after it started with no artifact: both models trained and saved
InitRetrained ==
    LET rf0 == init_models(PathfinderAI_init, FreshDisk).self
        ann0 == load_model(PathfinderANN_init, FreshDisk)
        rf1 == rf_train(rf0, FreshDisk, 0, 1, "none", "none")
        ann1 == ann_train(ann0, rf1.disk, 0, 1, "none", "none")
    IN  /\ threads = IdleThreads
        /\ rf_model = rf1.self
        /\ ann_model = ann1.self
        /\ model_version = CoordinatorVersion(1)
        /\ predictions_cache = {}
        /\ disk = ann1.disk
        /\ now = 1
        /\ updates = 0
        /\ version_artifacts = ArtifactsOf(rf1.self, ann1.self)
        /\ last = [LastCall("update_models") EXCEPT
                      !.ret = TRUE, !.rf_called = TRUE, !.ann_called = TRUE,
                      !.rf_success = TRUE, !.ann_success = TRUE,
                      !.cache_clears = 1,
                      !.pre_version = DefaultVersion,
                      !.init_version = DefaultVersion,
                      !.post_version = CoordinatorVersion(1)]

\* ------------------------------------------------------------------ actions
\* the clock advances
Tick ==
    /\ UNCHANGED threads
    /\ now < MaxClock
    /\ now' = now + 1
    /\ UNCHANGED <<rf_model, ann_model, model_version, predictions_cache, disk,
                   updates, version_artifacts, last>>

initialize_models_keeps_version(d) ==
    LET rf == init_models(PathfinderAI_init, d)
        ann == load_model(PathfinderANN_init, d)
    IN  IF ~rf.ok
        THEN [rf_model |-> rf.self, ann_model |-> ann_model,
              model_version |-> model_version,
              version_artifacts |-> version_artifacts, ok |-> FALSE]
        ELSE [rf_model |-> rf.self, ann_model |-> ann,
              model_version |-> model_version,
              version_artifacts |-> ArtifactsOf(rf.self, ann), ok |-> TRUE]

\* ModelCoordinator.initialize_models: the fields after the call and the
\* value returned
initialize_models(d) ==
    LET rf == init_models(PathfinderAI_init, d)
        ann == load_model(PathfinderANN_init, d)
    IN  IF ~rf.ok
        THEN [rf_model |-> rf.self, ann_model |-> ann_model,
              model_version |-> model_version,
              version_artifacts |-> version_artifacts, ok |-> FALSE]
        ELSE [rf_model |-> rf.self, ann_model |-> ann,
              model_version |-> rf.self.model_version,
              version_artifacts |-> ArtifactsOf(rf.self, ann), ok |-> TRUE]

InitializeModels ==
    /\ UNCHANGED threads
    /\ LET r == initialize_models(disk)
       IN  /\ rf_model' = r.rf_model
           /\ ann_model' = r.ann_model
           /\ model_version' = r.model_version
           /\ version_artifacts' = r.version_artifacts
           /\ last' = [LastCall("initialize_models") EXCEPT
                         !.ret = r.ok,
                         !.pre_version = model_version,
                         !.post_version = r.model_version]
           /\ UNCHANGED <<predictions_cache, disk, now, updates>>

\* the training payload handed to update_models: None, or a dict with some
\* of the four keys
TrainingKeys == {"rf_features", "rf_labels", "ann_features", "ann_labels"}

Payload(kind, keys) == [kind |-> kind, keys |-> keys]

Payloads ==
    {Payload("None", {}), Payload("dict", {}), Payload("dict", TrainingKeys)}
    \cup {Payload("dict", TrainingKeys \ {k}) : k \in TrainingKeys}

\* how the ensemble's training step goes: where train raises, or where its
\* save raises
RFScenarios ==
    {<<f, "none">> : f \in RFTrainFailures \ {"none"}}
    \cup {<<"none", f>> : f \in RFSaveFailures}

ANNScenarios ==
    {<<f, "none">> : f \in ANNTrainFailures \ {"none"}}
    \cup {<<"none", f>> : f \in ANNSaveFailures}

\* a payload without the ensemble's keys never reaches rf_model.train, one
\* without the neural keys never reaches ann_model.train
NoFailure == <<"none", "none">>

RFScenariosFor(payload, scenarios) ==
    IF {"rf_features", "rf_labels"} \subseteq payload.keys
    THEN scenarios ELSE {NoFailure}

ANNScenariosFor(payload, scenarios) ==
    IF TrainingKeys \subseteq payload.keys THEN scenarios ELSE {NoFailure}

both_succeeded_either(rf_success, ann_success) == rf_success \/ ann_success

\* rf_success and ann_success at line 159
both_succeeded(rf_success, ann_success) == rf_success /\ ann_success

conclude_update_models_clears_first(u, t) ==
    [u EXCEPT
        !.model_version = CoordinatorVersion(t),
        !.version_artifacts = ArtifactsOf(u.rf_model, u.ann_model),
        !.predictions_cache = {},
        !.cache_clears = 1,
        !.ok = both_succeeded(u.rf_success, u.ann_success)]

\* lines 159-169 of update_models: u is the call so far, t the clock
conclude_update_models(u, t) ==
    IF ~both_succeeded(u.rf_success, u.ann_success)
    THEN u
    ELSE [u EXCEPT
             !.model_version = CoordinatorVersion(t),
             !.version_artifacts = ArtifactsOf(u.rf_model, u.ann_model),
             !.predictions_cache = {},
             !.cache_clears = 1,
             !.ok = TRUE]

\* ModelCoordinator.update_models: the fields and the disk after the call,
\* the value returned, and what the call did on the way
update_models(payload, rfsc, annsc) ==
    LET g == updates + 1
        need_init == rf_model.is_none \/ ann_model.is_none
        i == IF need_init THEN initialize_models(disk)
             ELSE [rf_model |-> rf_model, ann_model |-> ann_model,
                   model_version |-> model_version,
                   version_artifacts |-> version_artifacts, ok |-> TRUE]
        rf == rf_train(i.rf_model, disk, g, now, rfsc[1], rfsc[2])
        ann == ann_train(i.ann_model, rf.disk, g, now, annsc[1], annsc[2])
        unchanged ==
            [rf_model |-> rf_model, ann_model |-> ann_model,
             model_version |-> model_version,
             version_artifacts |-> version_artifacts,
             predictions_cache |-> predictions_cache, disk |-> disk,
             ok |-> FALSE, initialized |-> FALSE,
             rf_called |-> FALSE, ann_called |-> FALSE,
             rf_success |-> FALSE, ann_success |-> FALSE, cache_clears |-> 0,
             init_version |-> model_version]
        after_init ==
            [unchanged EXCEPT !.rf_model = i.rf_model,
                              !.ann_model = i.ann_model,
                              !.model_version = i.model_version,
                              !.version_artifacts = i.version_artifacts,
                              !.initialized = need_init,
                              !.init_version = i.model_version]
        after_rf ==
            [after_init EXCEPT !.rf_model = rf.self, !.disk = rf.disk,
                               !.rf_called = TRUE, !.rf_success = rf.ok]
        after_ann ==
            [after_rf EXCEPT !.ann_model = ann.self, !.disk = ann.disk,
                             !.ann_called = TRUE, !.ann_success = ann.ok]
    IN  IF payload.kind = "None" \/ payload.keys = {}
           THEN unchanged
        ELSE IF ~i.ok
           THEN after_init
        ELSE IF ~({"rf_features", "rf_labels"} \subseteq payload.keys)
           THEN after_init
        ELSE IF ~({"ann_features", "ann_labels"} \subseteq payload.keys)
           THEN after_rf
        ELSE conclude_update_models(after_ann, now)

\* the request that came just before the call now made
RequestBefore ==
    IF last.op = "get_route_predictions"
    THEN Request(last.route_id, last.prefs, last.outcome, last.result, FALSE)
    ELSE NoRequest

UpdateModels(payload, rfsc, annsc) ==
    /\ UNCHANGED threads
    /\ LET u == update_models(payload, rfsc, annsc)
       IN  /\ updates < MaxUpdates
           /\ rf_model' = u.rf_model
           /\ ann_model' = u.ann_model
           /\ model_version' = u.model_version
           /\ version_artifacts' = u.version_artifacts
           /\ predictions_cache' = u.predictions_cache
           /\ disk' = u.disk
           /\ updates' = IF u.rf_called THEN updates + 1 ELSE updates
           /\ last' = [LastCall("update_models") EXCEPT
                         !.ret = u.ok,
                         !.payload = payload,
                         !.prev = IF u.ok /\ ~RequestBefore.is_none
                                  THEN [RequestBefore EXCEPT !.updated = TRUE]
                                  ELSE NoRequest,
                         !.initialized = u.initialized,
                         !.rf_called = u.rf_called,
                         !.ann_called = u.ann_called,
                         !.rf_success = u.rf_success,
                         !.ann_success = u.ann_success,
                         !.cache_clears = u.cache_clears,
                         !.pre_version = model_version,
                         !.pre_cache = predictions_cache,
                         !.init_version = u.init_version,
                         !.post_version = u.model_version,
                         !.post_cache = u.predictions_cache]
           /\ UNCHANGED now

\* the function under the decorator, lines 47-63
get_route_predictions_function(route_id, prefs, outs) ==
    LET route == RouteQueryGet(route_id)
    IN  IF route.is_none
        THEN [result |-> get_fallback_predictions(model_version, now),
              ann |-> ann_model, rf_produced |-> FALSE, ann_produced |-> FALSE]
        ELSE generate_predictions(rf_model, ann_model, model_version, disk,
                                  now, route, prefs, outs)

\* ModelCoordinator.get_route_predictions as callers reach it: the wrapper
\* built by the decorator of line 45
GetRoutePredictions(route_id, prefs) ==
    /\ UNCHANGED threads
    /\ LET k == hashkey(route_id, prefs)
           hit == \E e \in predictions_cache : e.key = k
           call == [LastCall("get_route_predictions") EXCEPT
                       !.route_id = route_id, !.prefs = prefs,
                       !.prev = IF last.op = "update_models" /\ last.ret
                                THEN last.prev ELSE RequestBefore]
       IN  IF cached_raises(DecoratorCache, "dict")
           THEN /\ last' = [call EXCEPT !.outcome = "raised"]
                /\ UNCHANGED <<rf_model, ann_model, model_version,
                               predictions_cache, disk, now, updates,
                               version_artifacts>>
           ELSE IF hit
           THEN LET e == CHOOSE x \in predictions_cache : x.key = k
                IN /\ last' = [call EXCEPT !.result = e.value, !.cache_hit = TRUE]
                   /\ UNCHANGED <<rf_model, ann_model, model_version,
                                  predictions_cache, disk, now, updates,
                                  version_artifacts>>
           ELSE \E outs \in EstimatorOutputs :
                LET r == get_route_predictions_function(route_id, prefs, outs)
                IN /\ last' = [call EXCEPT !.result = r.result,
                                           !.rf_produced = r.rf_produced,
                                           !.ann_produced = r.ann_produced,
                                           !.used = ArtifactsOf(rf_model, r.ann)]
                   /\ ann_model' = r.ann
                   /\ predictions_cache' =
                          predictions_cache \cup {[key |-> k, value |-> r.result]}
                   /\ UNCHANGED <<rf_model, model_version, disk, now, updates,
                                  version_artifacts>>

\* ModelCoordinator._generate_predictions called on a route object
GeneratePredictions(route, prefs, outs) ==
    /\ UNCHANGED threads
    /\ LET r == generate_predictions(rf_model, ann_model, model_version, disk,
                                     now, route, prefs, outs)
       IN  /\ ann_model' = r.ann
           /\ last' = [LastCall("_generate_predictions") EXCEPT
                         !.result = r.result,
                         !.rf_produced = r.rf_produced,
                         !.ann_produced = r.ann_produced,
                         !.used = ArtifactsOf(rf_model, r.ann)]
           /\ UNCHANGED <<rf_model, model_version, predictions_cache, disk, now,
                          updates, version_artifacts>>

\* ModelCoordinator.get_fallback_predictions called on its own
GetFallbackPredictions ==
    /\ UNCHANGED threads
    /\ last' = [LastCall("get_fallback_predictions") EXCEPT
                  !.result = get_fallback_predictions(model_version, now)]
    /\ UNCHANGED <<rf_model, ann_model, model_version, predictions_cache, disk,
                   now, updates, version_artifacts>>

\* create_app, lines 36-46: the coordinator is built and initialized; a
\* False from initialize_models is raised as RuntimeError and re-raised
create_app(d) ==
    LET r == initialize_models(d)
    IN  [init |-> r, outcome |-> IF r.ok THEN "returned" ELSE "raised"]

\* when create_app raises, the coordinator it built is dropped with it
CreateApp ==
    /\ UNCHANGED threads
    /\ LET a == create_app(disk)
           kept == a.outcome = "returned"
       IN  /\ last.op = "__init__"
           /\ rf_model' = IF kept THEN a.init.rf_model ELSE rf_model
           /\ ann_model' = IF kept THEN a.init.ann_model ELSE ann_model
           /\ model_version' = IF kept THEN a.init.model_version ELSE model_version
           /\ version_artifacts' =
                  IF kept THEN a.init.version_artifacts ELSE version_artifacts
           /\ last' = [LastCall("create_app") EXCEPT
                         !.outcome = a.outcome,
                         !.ret = a.init.ok,
                         !.pre_disk = disk,
                         !.post_version = a.init.model_version]
           /\ UNCHANGED <<predictions_cache, disk, now, updates>>

\* PathfinderAI.train called on the coordinator's ensemble
RFTrain(fail, save_fail) ==
    /\ UNCHANGED threads
    /\ LET r == rf_train(rf_model, disk, updates + 1, now, fail, save_fail)
       IN  /\ ~rf_model.is_none
           /\ updates < MaxUpdates
           /\ rf_model' = r.self
           /\ disk' = r.disk
           /\ updates' = updates + 1
           /\ last' = [LastCall("PathfinderAI.train") EXCEPT
                         !.ret = r.ok, !.fail = fail, !.save_fail = save_fail,
                         !.pre_disk = disk, !.pre_rf = rf_model]
           /\ UNCHANGED <<ann_model, model_version, predictions_cache, now,
                          version_artifacts>>

\* PathfinderANN.train called on the coordinator's neural model
ANNTrain(fail, save_fail) ==
    /\ UNCHANGED threads
    /\ LET r == ann_train(ann_model, disk, updates + 1, now, fail, save_fail)
       IN  /\ ~ann_model.is_none
           /\ updates < MaxUpdates
           /\ ann_model' = r.self
           /\ disk' = r.disk
           /\ updates' = updates + 1
           /\ last' = [LastCall("PathfinderANN.train") EXCEPT
                         !.ret = r.ok, !.fail = fail, !.save_fail = save_fail,
                         !.pre_disk = disk, !.pre_ann = ann_model]
           /\ UNCHANGED <<rf_model, model_version, predictions_cache, now,
                          version_artifacts>>

\* PathfinderAI.save_models called on the coordinator's ensemble
RFSave(fail) ==
    /\ UNCHANGED threads
    /\ LET r == save_models(rf_model, disk, fail)
       IN  /\ ~rf_model.is_none
           /\ disk' = r.disk
           /\ last' = [LastCall("save_models") EXCEPT
                         !.ret = r.ok, !.save_fail = fail,
                         !.pre_disk = disk, !.pre_rf = rf_model]
           /\ UNCHANGED <<rf_model, ann_model, model_version, predictions_cache,
                          now, updates, version_artifacts>>

\* PathfinderANN.save_model called on the coordinator's neural model
ANNSave(fail) ==
    /\ UNCHANGED threads
    /\ LET r == save_model(ann_model, disk, fail)
       IN  /\ ~ann_model.is_none
           /\ disk' = r.disk
           /\ last' = [LastCall("save_model") EXCEPT
                         !.ret = r.ok, !.save_fail = fail,
                         !.pre_disk = disk, !.pre_ann = ann_model]
           /\ UNCHANGED <<rf_model, ann_model, model_version, predictions_cache,
                          now, updates, version_artifacts>>

\* PathfinderAI().init_models(): a new ensemble object takes the place of
\* the coordinator's and loads what the directory holds
InitModels ==
    /\ UNCHANGED threads
    /\ LET r == init_models(PathfinderAI_init, disk)
       IN  /\ ~rf_model.is_none
           /\ rf_model' = r.self
           /\ last' = [LastCall("init_models") EXCEPT
                         !.ret = r.ok, !.pre_disk = disk, !.pre_rf = rf_model]
           /\ UNCHANGED <<ann_model, model_version, predictions_cache, disk, now,
                          updates, version_artifacts>>

\* PathfinderAI.prepare_route_features called on the coordinator's ensemble
PrepareRouteFeatures(route, feature_names_in) ==
    /\ UNCHANGED threads
    /\ ~rf_model.is_none
    /\ last' = [LastCall("prepare_route_features") EXCEPT
                  !.route = route,
                  !.pre_rf = rf_model,
                  !.feature_names_in =
                      IF IsFitted(rf_model.route_classifier)
                      THEN feature_names_in ELSE << >>,
                  !.row = prepare_route_features(rf_model, route,
                                                 feature_names_in)]
    /\ UNCHANGED <<rf_model, ann_model, model_version, predictions_cache, disk,
                   now, updates, version_artifacts>>

\* ModelCoordinator.prepare_ann_features
PrepareAnnFeatures(route, prefs) ==
    /\ UNCHANGED threads
    /\ ~ann_model.is_none
    /\ last' = IF prepare_ann_features_raises(route)
               THEN [LastCall("prepare_ann_features") EXCEPT
                       !.outcome = "raised", !.route = route, !.prefs = prefs]
               ELSE [LastCall("prepare_ann_features") EXCEPT
                       !.route = route, !.prefs = prefs,
                       !.row = prepare_ann_features(route, prefs)]
    /\ UNCHANGED <<rf_model, ann_model, model_version, predictions_cache, disk,
                   now, updates, version_artifacts>>

\* PathfinderANN.predict_route_quality called on the coordinator's neural model
PredictRouteQuality(rows) ==
    /\ UNCHANGED threads
    /\ LET r == predict_route_quality_rows(ann_model, disk, rows)
       IN  /\ ~ann_model.is_none
           /\ ann_model' = r.self
           /\ last' = [LastCall("predict_route_quality") EXCEPT
                         !.rows = rows, !.row = r.values, !.pre_ann = ann_model]
           /\ UNCHANGED <<rf_model, model_version, predictions_cache, disk, now,
                          updates, version_artifacts>>

\* PathfinderANN().load_model(): a new neural object takes the place of the
\* coordinator's and loads what the directory holds
LoadModel ==
    /\ UNCHANGED threads
    /\ ~ann_model.is_none
    /\ ann_model' = load_model(PathfinderANN_init, disk)
    /\ last' = [LastCall("load_model") EXCEPT
                  !.ret = load_model_returns(PathfinderANN_init, disk),
                  !.pre_disk = disk, !.pre_ann = ann_model]
    /\ UNCHANGED <<rf_model, model_version, predictions_cache, disk, now,
                   updates, version_artifacts>>

\* ------------------------------------------- calls that run side by side
\* No lock guards the coordinator or its models, so a call can run between
\* any two statements of another one.  The calls below are update_models and
\* get_route_predictions taken statement by statement.

\* update_models with a complete payload enters: lines 134-144, and
\* initialize_models if a model is missing
UpdateModelsBegin(rfsc, annsc) ==
    LET need_init == rf_model.is_none \/ ann_model.is_none
        i == IF need_init THEN initialize_models(disk)
             ELSE [rf_model |-> rf_model, ann_model |-> ann_model,
                   model_version |-> model_version,
                   version_artifacts |-> version_artifacts, ok |-> TRUE]
    IN  /\ threads.upd.pc = "idle"
        /\ updates < MaxUpdates
        /\ rf_model' = i.rf_model
        /\ ann_model' = i.ann_model
        /\ model_version' = i.model_version
        /\ version_artifacts' = i.version_artifacts
        /\ IF i.ok
           THEN /\ updates' = updates + 1
                /\ threads' =
                     [threads EXCEPT
                        !.overlapped = FALSE,
                        !.upd = [IdleUpdate EXCEPT
                                   !.pc = "rf_scaler",
                                   !.g = updates + 1,
                                   !.rf_fail = rfsc[1],
                                   !.ann_fail = annsc[1],
                                   !.before = ArtifactsOf(i.rf_model, i.ann_model),
                                   !.had_artifact = disk.rf_path.kind = "artifact",
                                   !.pre_version = model_version]]
                /\ last' = [LastCall("update_models") EXCEPT
                              !.outcome = "running",
                              !.pre_version = model_version,
                              !.initialized = need_init]
           ELSE /\ last' = [LastCall("update_models") EXCEPT
                              !.pre_version = model_version,
                              !.initialized = need_init,
                              !.post_version = i.model_version]
                /\ UNCHANGED <<updates, threads>>
        /\ UNCHANGED <<predictions_cache, disk, now>>

\* the statement after the one at pc, for the statements that cannot raise
NextStatement(pc) ==
    CASE pc = "rf_scaler" -> "rf_classifier"
      [] pc = "rf_regressor" -> "rf_stamp"
      [] pc = "rf_stamp" -> "rf_rename"
      [] pc = "rf_rename" -> "rf_dump_open"
      [] pc = "rf_dump_open" -> "rf_dump_write"
      [] pc = "rf_dump_write" -> "rf_remove"
      [] pc = "rf_remove" -> "ann_scaler"
      [] pc = "ann_scaler" -> "ann_fit"
      [] pc = "ann_save" -> "conclude"
      [] OTHER -> pc

\* rf_model after the statement of PathfinderAI.train at pc
RFTrainStatement(self, u, t) ==
    CASE u.pc = "rf_scaler" ->
             [self EXCEPT
                !.scaler = Fitted(u.g),
                !.route_classifier = IF @.st = "none" THEN FreshEst ELSE @,
                !.difficulty_predictor = IF @.st = "none" THEN FreshEst ELSE @]
      [] u.pc = "rf_classifier" /\ u.rf_fail # "clf_fit" ->
             [self EXCEPT !.route_classifier = Fitted(u.g)]
      [] u.pc = "rf_regressor" ->
             [self EXCEPT !.difficulty_predictor = Fitted(u.g)]
      [] u.pc = "rf_stamp" ->
             [self EXCEPT !.last_training_date = t,
                          !.model_version = TrainedVersion(t)]
      [] OTHER -> self

\* ann_model after the statement of PathfinderANN.train at pc
ANNTrainStatement(self, u, t) ==
    CASE u.pc = "ann_scaler" ->
             [(IF self.model.st = "none" THEN build_model(self) ELSE self)
                EXCEPT !.scaler = Fitted(u.g)]
      [] u.pc = "ann_fit" /\ u.ann_fail # "fit" ->
             [self EXCEPT !.model = Fitted(u.g)]
      [] u.pc = "ann_save" ->
             [self EXCEPT !.last_training_date = t,
                          !.model_version = TrainedVersion(t)]
      [] OTHER -> self

\* the files after the statement at pc: the statements of save_models one
\* by one, and save_model
SaveStatement(d, rf, ann, u) ==
    CASE u.pc = "rf_rename" /\ Exists(d.rf_path) ->
             [d EXCEPT !.rf_backup = d.rf_path, !.rf_path = Absent]
      [] u.pc = "rf_dump_open" -> [d EXCEPT !.rf_path = Corrupt]
      [] u.pc = "rf_dump_write" -> [d EXCEPT !.rf_path = RFArtifact(rf)]
      [] u.pc = "rf_remove" -> [d EXCEPT !.rf_backup = Absent]
      [] u.pc = "ann_save" -> save_model(ann, d, "none").disk
      [] OTHER -> d

\* the running update_models executes its next statement
UpdateModelsStep ==
    LET u == threads.upd
        rf == RFTrainStatement(rf_model, u, now)
        ann == ANNTrainStatement(ann_model, u, now)
        returned(ok) ==
            [LastCall("update_models") EXCEPT
                !.ret = ok,
                !.rf_called = TRUE, !.ann_called = TRUE,
                !.rf_success = u.rf_success, !.ann_success = u.ann_success,
                !.cache_clears = IF ok THEN 1 ELSE 0,
                !.pre_version = u.pre_version,
                !.post_version = model_version]
    IN  /\ u.pc # "idle"
        /\ rf_model' = rf
        /\ ann_model' = ann
        /\ disk' = SaveStatement(disk, rf, ann, u)
        /\ UNCHANGED <<now, updates>>
        /\ CASE u.pc = "rf_classifier" ->
                  \* train raises at the fit and returns False
                  /\ threads' = [threads EXCEPT !.upd.pc =
                        IF u.rf_fail = "clf_fit" THEN "ann_scaler"
                        ELSE "rf_regressor"]
                  /\ UNCHANGED <<model_version, version_artifacts,
                                 predictions_cache, last>>
             [] u.pc = "rf_remove" ->
                  /\ threads' = [threads EXCEPT !.upd.pc = "ann_scaler",
                                                !.upd.rf_success = TRUE]
                  /\ UNCHANGED <<model_version, version_artifacts,
                                 predictions_cache, last>>
             [] u.pc = "ann_fit" ->
                  /\ threads' = [threads EXCEPT !.upd.pc =
                        IF u.ann_fail = "fit" THEN "conclude" ELSE "ann_save"]
                  /\ UNCHANGED <<model_version, version_artifacts,
                                 predictions_cache, last>>
             [] u.pc = "ann_save" ->
                  /\ threads' = [threads EXCEPT !.upd.pc = "conclude",
                                                !.upd.ann_success = TRUE]
                  /\ UNCHANGED <<model_version, version_artifacts,
                                 predictions_cache, last>>
             [] u.pc = "conclude" ->
                  \* lines 159-164
                  IF both_succeeded(u.rf_success, u.ann_success)
                  THEN /\ model_version' = CoordinatorVersion(now)
                       /\ version_artifacts' = ArtifactsOf(rf_model, ann_model)
                       /\ threads' = [threads EXCEPT !.upd.pc = "clear"]
                       /\ UNCHANGED <<predictions_cache, last>>
                  ELSE /\ threads' = [threads EXCEPT !.upd = IdleUpdate]
                       /\ last' = returned(FALSE)
                       /\ UNCHANGED <<model_version, version_artifacts,
                                      predictions_cache>>
             [] u.pc = "clear" ->
                  \* lines 165-169
                  /\ predictions_cache' = {}
                  /\ threads' = [threads EXCEPT !.upd = IdleUpdate,
                                                !.completed = @ + 1]
                  /\ last' = returned(TRUE)
                  /\ UNCHANGED <<model_version, version_artifacts>>
             [] OTHER ->
                  /\ threads' = [threads EXCEPT !.upd.pc = NextStatement(u.pc)]
                  /\ UNCHANGED <<model_version, version_artifacts,
                                 predictions_cache, last>>

\* get_route_predictions under the wrapper of cachetools.cached, which
\* holds no lock: the lookup cache[k], the call of the method on a miss,
\* and, as a later statement, the store cache[k] = v
GetRoutePredictionsStep(route_id, prefs) ==
    LET k == hashkey(route_id, prefs)
        hit == \E e \in predictions_cache : e.key = k
        call == [LastCall("get_route_predictions") EXCEPT
                    !.route_id = route_id, !.prefs = prefs]
    IN  IF threads.req.pc = "store"
        THEN /\ k = threads.req.key
             /\ predictions_cache' =
                    {e \in predictions_cache : e.key # k}
                        \cup {[key |-> k, value |-> threads.req.value,
                                computed_after |-> threads.req.computed_after]}
             /\ threads' = [threads EXCEPT !.req = IdleRequest]
             /\ last' = [call EXCEPT !.result = threads.req.value]
             /\ UNCHANGED <<rf_model, ann_model, model_version, disk, now,
                            updates, version_artifacts>>
        ELSE IF cached_raises(DecoratorCache, "dict")
        THEN /\ last' = [call EXCEPT !.outcome = "raised"]
             /\ threads' = [threads EXCEPT
                              !.overlapped = @ \/ threads.upd.pc # "idle"]
             /\ UNCHANGED <<rf_model, ann_model, model_version,
                            predictions_cache, disk, now, updates,
                            version_artifacts>>
        ELSE IF hit
        THEN LET e == CHOOSE x \in predictions_cache : x.key = k
             IN /\ last' = [call EXCEPT !.result = e.value, !.cache_hit = TRUE]
                /\ UNCHANGED <<rf_model, ann_model, model_version,
                               predictions_cache, disk, now, updates,
                               version_artifacts, threads>>
        ELSE \E outs \in EstimatorOutputs :
             LET r == get_route_predictions_function(route_id, prefs, outs)
             IN /\ ann_model' = r.ann
                /\ threads' =
                     [threads EXCEPT
                        !.overlapped = @ \/ threads.upd.pc # "idle",
                        !.req = [pc |-> "store", key |-> k, value |-> r.result,
                                 computed_after |-> threads.completed]]
                /\ UNCHANGED <<rf_model, model_version, predictions_cache,
                               disk, now, updates, version_artifacts, last>>

\* ----------------------------------------------------------- specifications
\* every operation
Next ==
    \/ Tick
    \/ InitializeModels
    \/ \E payload \in Payloads :
         \E rfsc \in RFScenariosFor(payload, RFScenarios),
            annsc \in ANNScenariosFor(payload, ANNScenarios) :
             UpdateModels(payload, rfsc, annsc)
    \/ \E route_id \in RouteIds, prefs \in RequestPreferences :
           GetRoutePredictions(route_id, prefs)
    \/ \E route \in Routes, prefs \in PipelinePreferences, outs \in EstimatorOutputs :
           GeneratePredictions(route, prefs, outs)
    \/ GetFallbackPredictions
    \/ CreateApp
    \/ \E sc \in RFScenarios : RFTrain(sc[1], sc[2])
    \/ \E sc \in ANNScenarios : ANNTrain(sc[1], sc[2])
    \/ \E fail \in RFSaveFailures : RFSave(fail)
    \/ \E fail \in ANNSaveFailures : ANNSave(fail)
    \/ LoadModel
    \/ InitModels
    \/ \E route \in FeatureRoutes, names \in TrainedColumns :
           PrepareRouteFeatures(route, names)
    \/ \E route \in Routes, prefs \in AnnPreferences :
           PrepareAnnFeatures(route, prefs)
    \/ \E rows \in FeatureBatches : PredictRouteQuality(rows)

Spec == Init /\ [][Next]_vars

\* the models' lifecycle and the prediction pipeline
NextModels ==
    \/ Tick
    \/ InitializeModels
    \/ \E payload \in Payloads :
         \E rfsc \in RFScenariosFor(payload, RFScenarios),
            annsc \in ANNScenariosFor(payload, ANNScenarios) :
             UpdateModels(payload, rfsc, annsc)
    \/ \E route \in Routes, prefs \in PipelinePreferences, outs \in EstimatorOutputs :
           GeneratePredictions(route, prefs, outs)
    \/ GetFallbackPredictions

SpecModels == Init /\ [][NextModels]_vars

\* retraining alone: every payload and every failure of either step
NextUpdates ==
    \/ Tick
    \/ InitializeModels
    \/ \E payload \in Payloads :
         \E rfsc \in RFScenariosFor(payload, RFScenarios),
            annsc \in ANNScenariosFor(payload, ANNScenarios) :
             UpdateModels(payload, rfsc, annsc)

SpecUpdates == Init /\ [][NextUpdates]_vars

\* update_models on a coordinator that has completed an update before
SpecVersions == InitRetrained /\ [][NextUpdates]_vars

\* the request path: training succeeds, or one of its two steps fails
RequestRFScenarios == {NoFailure, <<"clf_fit", "none">>}
RequestANNScenarios == {NoFailure, <<"fit", "none">>}

NextRequests ==
    \/ Tick
    \/ InitializeModels
    \/ \E payload \in Payloads :
         \E rfsc \in RFScenariosFor(payload, RequestRFScenarios),
            annsc \in ANNScenariosFor(payload, RequestANNScenarios) :
             UpdateModels(payload, rfsc, annsc)
    \/ \E route_id \in RouteIds, prefs \in RequestPreferences :
           GetRoutePredictions(route_id, prefs)

SpecRequests == Init /\ [][NextRequests]_vars

\* update_models running while predictions are asked for
NextConcurrent ==
    \/ threads.upd.pc = "idle" /\ InitializeModels
    \/ \E rfsc \in RequestRFScenarios, annsc \in RequestANNScenarios :
           UpdateModelsBegin(rfsc, annsc)
    \/ UpdateModelsStep
    \/ \E route_id \in RouteIds, prefs \in RequestPreferences :
           GetRoutePredictionsStep(route_id, prefs)
    \/ \E route \in Routes, prefs \in PipelinePreferences,
          outs \in EstimatorOutputs :
           GeneratePredictions(route, prefs, outs)

SpecConcurrent == Init /\ [][NextConcurrent]_vars

\* the ensemble's artifact: startup, lazy initialization, training and
\* saving over every directory of ArtifactDisks
NextEnsemble ==
    \/ CreateApp
    \/ InitializeModels
    \/ \E payload \in Payloads :
         \E rfsc \in RFScenariosFor(payload, RequestRFScenarios),
            annsc \in ANNScenariosFor(payload, RequestANNScenarios) :
             UpdateModels(payload, rfsc, annsc)
    \/ \E sc \in RFScenarios : RFTrain(sc[1], sc[2])
    \/ \E fail \in RFSaveFailures : RFSave(fail)
    \/ InitModels

SpecEnsemble == InitArtifacts /\ [][NextEnsemble]_vars

\* the neural artifact: loading, training and saving over every directory
\* of ArtifactDisks
NextNeural ==
    \/ InitializeModels
    \/ \E sc \in ANNScenarios : ANNTrain(sc[1], sc[2])
    \/ \E fail \in ANNSaveFailures : ANNSave(fail)
    \/ LoadModel

SpecNeural == InitArtifacts /\ [][NextNeural]_vars

\* the feature builders and the neural predictor, on models as
\* initialize_models leaves them
NextFeatures ==
    \/ InitializeModels
    \/ \E route \in FeatureRoutes, names \in TrainedColumns :
           PrepareRouteFeatures(route, names)
    \/ \E route \in Routes, prefs \in AnnPreferences :
           PrepareAnnFeatures(route, prefs)
    \/ \E rows \in FeatureBatches : PredictRouteQuality(rows)

SpecFeatures == Init /\ [][NextFeatures]_vars

\* ------------------------------------------------------------------- claims
\* the last call went through get_route_predictions
IsRequest == last.op = "get_route_predictions"

\* the last call was _generate_predictions
IsPipelineCall == last.op = "_generate_predictions"

\* the last call was update_models
IsUpdate == last.op = "update_models"

\* the request before the last one had the same route id, and no
\* update_models returned True in between
RepeatedRequest ==
    /\ IsRequest
    /\ ~last.prev.is_none
    /\ ~last.prev.updated
    /\ last.prev.route_id = last.route_id

\* C1: ModelCoordinator.get_route_predictions never propagates an exception
\* to its caller: every call returns a prediction result.
C1_NeverRaises ==
    IsRequest => last.outcome = "returned"

\* C2: a result with is_fallback = false is returned only when both models
\* produced their own predictions; when either fails the result is the
\* fallback result.
C2_RealOnlyWhenBothProduced ==
    (IsPipelineCall /\ ~last.result.is_fallback)
        => (last.rf_produced /\ last.ann_produced)

\* C3: when the route store has no route for the id, get_route_predictions
\* returns the fixed fallback result carrying the coordinator's version.
C3_NoRouteGivesFallback ==
    (IsRequest /\ RouteQueryGet(last.route_id).is_none)
        => /\ last.outcome = "returned"
           /\ last.result.route_type = "mixed"
           /\ last.result.difficulty_score = 5
           /\ last.result.quality_score = 5
           /\ last.result.confidence_score = 0
           /\ last.result.is_fallback
           /\ last.result.model_version = model_version

InRange(x) == 0 <= x /\ x <= 10

\* C4: the difficulty, quality and confidence scores of a prediction result
\* are each within [0,1], whatever the estimators output.
C4_ScoresInRange ==
    IsPipelineCall
        => /\ InRange(last.result.difficulty_score)
           /\ InRange(last.result.quality_score)
           /\ InRange(last.result.confidence_score)

\* C5: the second of two calls with the same route id and the same
\* preference set, with no update_models in between, is served from the
\* cache and returns the result of the first.
C5_RepeatServedFromCache ==
    (RepeatedRequest /\ last.route_id = 1 /\ last.prev.prefs = last.prefs)
        => /\ last.outcome = "returned"
           /\ last.cache_hit
           /\ last.result = last.prev.result

\* C6: preference sets holding the same key/value pairs in a different
\* order derive the same cache key, and the second call returns the result
\* cached by the first.
C6_PermutedPreferencesShareEntry ==
    (/\ RepeatedRequest
     /\ last.route_id = 1
     /\ last.prev.prefs # last.prefs
     /\ DictEq(last.prev.prefs, last.prefs))
        => /\ hashkey(last.route_id, last.prefs)
                = hashkey(last.prev.route_id, last.prev.prefs)
           /\ last.outcome = "returned"
           /\ last.cache_hit
           /\ last.result = last.prev.result

\* C7: after update_models returned true, the next get_route_predictions
\* for a key requested before the update recomputes, and its result carries
\* the new model_version.
C7_RecomputedAfterUpdate ==
    (/\ IsRequest
     /\ ~last.prev.is_none
     /\ last.prev.updated
     /\ last.prev.route_id = last.route_id
     /\ last.route_id = 1
     /\ DictEq(last.prev.prefs, last.prefs))
        => /\ last.outcome = "returned"
           /\ ~last.cache_hit
           /\ last.result.model_version = model_version

\* C8: the model_version a non-fallback result carries is the version
\* recorded for the artifacts that computed it.
C8_VersionNamesArtifacts ==
    (/\ IsPipelineCall
     /\ ~last.result.is_fallback
     /\ last.rf_produced
     /\ last.ann_produced)
        => last.used = version_artifacts

\* C9: update_models returns true if and only if both the ensemble training
\* step and the neural training step of that call succeeded.
C9_TrueIffBothSucceeded ==
    IsUpdate
        => (last.ret <=> (/\ last.rf_called /\ last.rf_success
                          /\ last.ann_called /\ last.ann_success))

C9_Witness ==
    /\ IsUpdate
    /\ last.ret
    /\ last.rf_success
    /\ last.ann_success

\* the call rederived the coordinator version from the clock
Rederived == \E t \in 1..MaxClock : last.post_version = CoordinatorVersion(t)

\* C10 as stated: the cache is cleared (once) and the version rederived if
\* and only if update_models returns true; a call that returns false leaves
\* the cache contents and the coordinator's model_version unchanged.
C10_FalseLeavesVersion ==
    IsUpdate
        => /\ last.ret => (last.cache_clears = 1 /\ Rederived)
           /\ ~last.ret => /\ last.cache_clears = 0
                           /\ last.post_cache = last.pre_cache
                           /\ last.post_version = last.pre_version

\* C10 amended: as above, except that a call that returns false and had to
\* initialize the models leaves model_version as initialize_models set it.
C10_FalseLeavesVersionUnlessInitialized ==
    IsUpdate
        => /\ last.ret => (last.cache_clears = 1 /\ Rederived)
           /\ ~last.ret => /\ last.cache_clears = 0
                           /\ last.post_cache = last.pre_cache
                           /\ last.post_version =
                                  IF last.initialized THEN last.init_version
                                  ELSE last.pre_version

C10_Witness ==
    /\ IsUpdate
    /\ ~last.ret
    /\ last.rf_called
    /\ last.initialized
    /\ last.post_version # last.pre_version

\* the payload is a dict that lacks at least one of its four parts
MissingPart(payload) ==
    payload.kind = "dict" /\ TrainingKeys \ payload.keys # {}

\* C11: an update_models call whose payload lacks one of its four parts
\* returns false and changes nothing: not the in-memory models, not the
\* artifact files, not the coordinator version, not the cache.
C11_MissingPartChangesNothing ==
    [][(last'.op = "update_models" /\ MissingPart(last'.payload))
          => /\ ~last'.ret
             /\ UNCHANGED <<rf_model, ann_model, disk, model_version,
                            predictions_cache>>]_vars

\* the last call was made directly on a model object
IsCall(op) == last.op = op

\* C12: with a canonical ensemble artifact on disk before the call (a
\* leftover .backup beside it or not), save_models that fails returns false
\* with the canonical path holding the artifact it held before, save_models
\* that succeeds returns true with the canonical path holding the new
\* artifact, and no .backup file remains either way.
C12_SaveAllOrNothing ==
    (IsCall("save_models") /\ last.pre_disk.rf_path.kind = "artifact")
        => /\ ~Exists(disk.rf_backup)
           /\ disk.rf_path = IF last.ret THEN RFArtifact(rf_model)
                                         ELSE last.pre_disk.rf_path

\* C13: with a neural artifact on disk before the call, save_model that
\* fails leaves the previous blob and the previous sidecar both unchanged.
C13_NeuralSaveRestores ==
    (/\ IsCall("save_model")
     /\ last.pre_disk.ann_blob.kind = "artifact"
     /\ last.pre_disk.ann_meta.kind = "artifact"
     /\ ~last.ret)
        => /\ disk.ann_blob = last.pre_disk.ann_blob
           /\ disk.ann_meta = last.pre_disk.ann_meta

\* C14: PathfinderAI.train that fails at any step returns false and leaves
\* the in-memory classifier, regressor, scaler and model_version, and the
\* artifact file, as they were before the call.
C14_FailedTrainChangesNothing ==
    (IsCall("PathfinderAI.train") /\ ~last.ret)
        => /\ rf_model = last.pre_rf
           /\ disk.rf_path = last.pre_disk.rf_path

\* C15: PathfinderANN.train that raises at any step returns false and
\* leaves the in-memory estimator, scaler and model_version, and the blob
\* and the sidecar on disk, as they were before the call.
C15_RaisedNeuralTrainChangesNothing ==
    (IsCall("PathfinderANN.train") /\ last.fail # "none")
        => /\ ~last.ret
           /\ ann_model = last.pre_ann
           /\ disk.ann_blob = last.pre_disk.ann_blob
           /\ disk.ann_meta = last.pre_disk.ann_meta

\* C16: whenever update_models returns true, the files on disk hold the
\* artifacts of both models as the coordinator holds them in memory.
C16_TrueMeansPersisted ==
    (IsUpdate /\ last.ret)
        => /\ disk.rf_path = RFArtifact(rf_model)
           /\ disk.ann_blob = ANNBlob(ann_model)
           /\ disk.ann_meta = ANNMetadata(ann_model)

\* every estimator of the ensemble is fitted, or every one is new
ReadyOrFreshRF(self) ==
    \/ IsFitted(self.route_classifier) /\ IsFitted(self.difficulty_predictor)
    \/ self.route_classifier = FreshEst /\ self.difficulty_predictor = FreshEst

\* the neural estimator and its scaler are both fitted, or both new
ReadyOrFreshANN(self) ==
    \/ IsFitted(self.model) /\ IsFitted(self.scaler)
    \/ self.model = FreshEst /\ self.scaler = FreshEst

\* C17: after initialize_models returns true both models are instantiated,
\* each Ready or Fresh, and the coordinator's model_version is the
\* ensemble's.
C17_InitializedBothModels ==
    (IsCall("initialize_models") /\ last.ret)
        => /\ ~rf_model.is_none
           /\ ~ann_model.is_none
           /\ ReadyOrFreshRF(rf_model)
           /\ ReadyOrFreshANN(ann_model)
           /\ model_version = rf_model.model_version

C17_Witness ==
    /\ IsCall("initialize_models")
    /\ last.ret
    /\ IsFitted(rf_model.route_classifier)
    /\ ann_model.model = FreshEst
    /\ model_version = TrainedVersion(0)

\* C18: update_models on a coordinator without both models, given a
\* complete payload whose training steps do not fail, initializes, trains,
\* returns true and leaves both models non-null.
C18_LazyInitializationThenTrue ==
    (/\ IsUpdate
     /\ last.initialized
     /\ last.payload.kind = "dict"
     /\ ~MissingPart(last.payload)
     /\ (last.rf_called => last.rf_success)
     /\ (last.ann_called => last.ann_success))
        => /\ last.ret
           /\ last.rf_called
           /\ ~rf_model.is_none
           /\ ~ann_model.is_none

\* C19: PathfinderANN.load_model returns true whether the blob is absent,
\* the blob or the sidecar is corrupt, or both are sound, and leaves the
\* estimator and the scaler non-null.
C19_LoadAlwaysTrue ==
    IsCall("load_model")
        => /\ last.ret
           /\ ann_model.model # NoneEst
           /\ ann_model.scaler # NoneEst

C19_Witness ==
    /\ IsCall("load_model")
    /\ last.pre_disk.ann_blob = Corrupt
    /\ last.ret
    /\ ann_model.model = FreshEst

\* C20: startup over a persisted ensemble artifact that fails to load or
\* fails self-validation completes: create_app returns with the coordinator
\* available.
C20_StartupSurvivesBadArtifact ==
    (IsCall("create_app") /\ last.pre_disk.rf_path \in {Corrupt, UnfittedRF})
        => last.outcome = "returned"

\* C23: init_models reports success with fresh untrained estimators when no
\* artifact is persisted; when one is, it reports success only if the
\* artifact loaded and both of its estimators answered the validation row.
C23_InitModelsSuccess ==
    IsCall("init_models")
        => /\ ~Exists(last.pre_disk.rf_path)
                => /\ last.ret
                   /\ rf_model.route_classifier = FreshEst
                   /\ rf_model.difficulty_predictor = FreshEst
           /\ (Exists(last.pre_disk.rf_path) /\ last.ret)
                => /\ last.pre_disk.rf_path.kind = "artifact"
                   /\ rf_model.route_classifier = last.pre_disk.rf_path.classifier
                   /\ rf_model.difficulty_predictor = last.pre_disk.rf_path.regressor
                   /\ IsFitted(rf_model.route_classifier)
                   /\ IsFitted(rf_model.difficulty_predictor)

C23_Witness ==
    /\ IsCall("init_models")
    /\ last.ret
    /\ last.pre_disk.rf_path.kind = "artifact"
    /\ IsFitted(rf_model.route_classifier)

\* the columns of a row, in order
Columns(row) == [i \in 1..Len(row) |-> row[i][1]]

Preferred(prefs, key) ==
    IF \E item \in DictItems(prefs) : item[1] = key
    THEN (CHOOSE item \in DictItems(prefs) : item[1] = key)[2]
    ELSE "absent"

\* C25: for every preference dict, absent keys included, the neural feature
\* row holds traffic 0.0 for 'avoid' and 0.5 otherwise; surface 1.0 for
\* asphalt, 0.7 for dirt, 0.4 for grass and 0.7 for any other value or an
\* absent key; safety 0.8 plus 0.1 for each of require_lighting and
\* require_sidewalks, at most 1.0.
C25_NeuralFeatureScores ==
    (IsCall("prepare_ann_features") /\ last.outcome = "returned")
        => LET traffic == Preferred(last.prefs, "traffic_preference")
               surface == Preferred(last.prefs, "surface_preference")
               lit == Preferred(last.prefs, "require_lighting") = "True"
               walk == Preferred(last.prefs, "require_sidewalks") = "True"
           IN  /\ last.row[3] = IF traffic = "avoid" THEN 0 ELSE 5
               /\ last.row[4] = CASE surface = "asphalt" -> 10
                                  [] surface = "dirt" -> 7
                                  [] surface = "grass" -> 4
                                  [] OTHER -> 7
               /\ last.row[5] = Min(8 + (IF lit THEN 1 ELSE 0)
                                      + (IF walk THEN 1 ELSE 0), 10)

\* C26: predict_route_quality answers n rows with exactly n values, each
\* within [0, 1], on every path, and leaves the neural model as it was.
C26_OneValuePerRow ==
    IsCall("predict_route_quality")
        => /\ Len(last.row) = Len(last.rows)
           /\ \A i \in 1..Len(last.row) : InRange(last.row[i])
           /\ ann_model = last.pre_ann

\* C27: the cache never holds a fallback result, and a call that follows a
\* call for the same route and preferences which gave no real prediction
\* returns a real prediction once the route and both models are there.
C27_FallbackNeverCached ==
    /\ \A e \in predictions_cache : ~e.value.is_fallback
    /\ (/\ IsRequest
        /\ ~last.prev.is_none
        /\ last.prev.route_id = last.route_id
        /\ DictEq(last.prev.prefs, last.prefs)
        /\ (last.prev.outcome = "raised" \/ last.prev.result.is_fallback)
        /\ ~RouteQueryGet(last.route_id).is_none
        /\ ~rf_model.is_none
        /\ ~ann_model.is_none)
           => /\ last.outcome = "returned"
              /\ ~last.result.is_fallback

\* C30: after load_model on a new neural object the state is consistent:
\* the version is the sidecar's only if the estimator and the scaler in
\* memory are the persisted ones, a freshly built estimator goes with the
\* default version, and a readable blob is kept when the sidecar is missing
\* or unreadable.
C30_LoadConsistent ==
    IsCall("load_model")
        => LET blob == last.pre_disk.ann_blob
               meta == last.pre_disk.ann_meta
               persisted == /\ blob.kind = "artifact"
                            /\ ann_model.model = blob.model
                            /\ ann_model.scaler = blob.scaler
           IN  /\ ann_model.model_version # DefaultVersion => persisted
               /\ ann_model.model = FreshEst
                     => ann_model.model_version = DefaultVersion
               /\ (blob.kind = "artifact"
                     /\ (meta.kind # "artifact" \/ ~meta.date_parses))
                     => persisted

\* C28: every update_models that returns true leaves a model_version that
\* differs from the version held before it, also when the update before it
\* completed within the same clock second.
C28_VersionAlwaysNew ==
    (IsUpdate /\ last.ret) => last.post_version # last.pre_version

\* the statement-by-statement update_models ends where the call taken as a
\* whole ends
StatementsAgreeWithCall ==
    (/\ IsUpdate /\ last.outcome = "returned" /\ last.rf_called
     /\ last.ret /\ threads.upd.pc = "idle")
        => /\ IsFitted(rf_model.scaler)
           /\ rf_model.scaler = rf_model.route_classifier
           /\ rf_model.scaler = rf_model.difficulty_predictor
           /\ ann_model.scaler = ann_model.model
           /\ ann_model.scaler = rf_model.scaler
           /\ disk.rf_path = RFArtifact(rf_model)
           /\ disk.rf_backup = Absent
           /\ disk.ann_blob = ANNBlob(ann_model)
           /\ disk.ann_meta = ANNMetadata(ann_model)
           /\ model_version = CoordinatorVersion(now)

TrainingInProgress ==
    threads.upd.pc \in {"rf_classifier", "rf_regressor", "rf_stamp",
                        "rf_rename", "rf_dump_open", "rf_dump_write",
                        "rf_remove", "ann_scaler", "ann_fit", "ann_save"}

\* C22: a prediction made while training is in progress reads the scaler,
\* the classifier, the regressor and the neural estimator as they were
\* before the training began, never some of them already refitted.
C22_PredictionReadsPreviousArtifact ==
    (/\ IsPipelineCall
     /\ last.rf_produced
     /\ last.ann_produced
     /\ TrainingInProgress)
        => last.used = threads.upd.before

\* save_models is between its first and its last statement
SaveInProgress ==
    threads.upd.pc \in {"rf_dump_open", "rf_dump_write", "rf_remove"}

\* C29: at every statement of an ensemble save that began over an existing
\* artifact, the canonical path holds a complete artifact, which an
\* init_models made at that moment loads.
C29_CanonicalPathAlwaysLoadable ==
    (SaveInProgress /\ threads.upd.had_artifact)
        => /\ disk.rf_path.kind = "artifact"
           /\ IsFitted(init_models(PathfinderAI_init, disk).self.route_classifier)

====
